---- MODULE Spec2Model ----
(***************************************************************************)
(* A model of AIService (src/src/services/AIService.ts): the retry driver  *)
(* of generate, the streaming reader of generateStream, the error          *)
(* classifier, the request builder and the response / chunk parsers.       *)
(*                                                                         *)
(* Text is modelled as a sequence of lower-cased word tokens (a message)   *)
(* or of wire symbols (a stream); substring tests become tests for a       *)
(* contiguous run of tokens.  An optional value is <<>> (undefined) or     *)
(* <<v>>.                                                                   *)
(***************************************************************************)
EXTENDS Integers, Sequences, FiniteSets, TLC

\* ------------------------------------------------------------------ bounds

\* Number of updateSettings calls the caller makes during one call.
MaxUpdates == 1
\* Number of symbols one streaming response carries at most.
MaxWire == 4
\* Number of symbols one read of the response body delivers at most.
MaxChunkLen == 3
\* Wall-clock ticks (of TickMs each) a streaming call is followed for.
MaxTicks == 1
\* The retry configuration a caller passes to the constructor instead of the
\* default one.
AltMaxRetries == 2
AltBaseDelayMs == 2000
AltMaxDelayMs == 3000

\* ---------------------------------------------------------- optional values

Undefined == <<>>
Some(x) == <<x>>
IsDefined(o) == o # <<>>
ValueOf(o) == o[1]
\* JavaScript truthiness of an optional string (a sequence of tokens)
TruthyText(o) == IsDefined(o) /\ ValueOf(o) # <<>>

Min(a, b) == IF a <= b THEN a ELSE b

\* String.prototype.includes on token sequences
Includes(msg, kw) ==
  \E i \in 0..(Len(msg) - Len(kw)) : \A j \in 1..Len(kw) : msg[i + j] = kw[j]

\* ------------------------------------------------------------------ errors

AIErrorCode ==
  {"RATE_LIMIT", "NETWORK_ERROR", "TIMEOUT", "INVALID_API_KEY", "QUOTA_EXCEEDED",
   "MODEL_NOT_FOUND", "CONTEXT_LENGTH_EXCEEDED", "SERVER_ERROR", "UNKNOWN"}

AIServiceError(message, code, retryable, retryAfter) ==
  [isError |-> TRUE, isAIServiceError |-> TRUE, name |-> "aiserviceerror",
   message |-> message, code |-> code, retryable |-> retryable,
   retryAfter |-> retryAfter]

\* an exception that is not an AIServiceError; isError is `instanceof Error`
RawError(isError, name, message) ==
  [isError |-> isError, isAIServiceError |-> FALSE, name |-> name,
   message |-> message, code |-> "NONE", retryable |-> FALSE,
   retryAfter |-> Undefined]

NoError == RawError(FALSE, "none", <<>>)

DEFAULT_RETRY_CONFIG == [maxRetries |-> 3, baseDelayMs |-> 1000, maxDelayMs |-> 30000]

AltRetryConfig ==
  [maxRetries |-> AltMaxRetries, baseDelayMs |-> AltBaseDelayMs,
   maxDelayMs |-> AltMaxDelayMs]

RetryConfigs == {DEFAULT_RETRY_CONFIG, AltRetryConfig}

\* fixed messages of the service
MSG_OLLAMA_MOBILE == <<"ollama", "is", "not", "supported", "on", "mobile">>
MSG_NETWORK == <<"network", "error", "please", "check", "your", "connection">>
MSG_UNKNOWN_ERROR == <<"unknown", "error", "occurred">>
MSG_UNKNOWN_STREAM == <<"unknown", "streaming", "error">>
MSG_TIMEOUT == <<"request", "timed", "out">>
MSG_NO_BODY == <<"no", "response", "body">>
MSG_RETRY_LIMIT == <<"retry", "limit", "exceeded">>
MSG_UNKNOWN_PROVIDER == <<"unknown", "provider">>
MSG_API_FAILED == <<"api", "request", "failed">>
MSG_TOO_LONG == <<"content", "too", "long">>
MSG_INVALID_KEY == <<"invalid", "api", "key">>
MSG_ACCESS_DENIED == <<"access", "denied">>
MSG_MODEL_NOT_FOUND == <<"model", "not", "found">>
MSG_QUOTA == <<"api", "quota", "exceeded">>
MSG_RATE_LIMIT == <<"rate", "limit", "reached", "waiting", "and", "retrying">>
MSG_SERVER(status) == <<"server", "error", ToString(status), "retrying">>

networkErrorMessages ==
  {<<"fetch", "failed">>, <<"network">>, <<"failed", "to", "fetch">>,
   <<"networkerror">>, <<"econnrefused">>, <<"enotfound">>, <<"etimedout">>,
   <<"econnreset">>, <<"err_network">>}

isNetworkError(error) ==
  /\ error.isError
  /\ \E msg \in networkErrorMessages :
        Includes(error.message, msg) \/ Includes(<<error.name>>, msg)

\* parseInt of a token made of digits
DigitTokens == {"0", "7", "20", "90"}
parseInt(tok) ==
  CASE tok = "0" -> 0 [] tok = "7" -> 7 [] tok = "20" -> 20 [] tok = "90" -> 90

\* message.match(/try again in (\d+)/i): the number after the first match
RetryMatch(message) ==
  LET hits == {i \in 1..(Len(message) - 3) :
                  /\ message[i] = "try" /\ message[i + 1] = "again"
                  /\ message[i + 2] = "in" /\ message[i + 3] \in DigitTokens}
  IN IF hits = {} THEN Undefined
     ELSE Some(parseInt(message[(CHOOSE i \in hits : \A k \in hits : i <= k) + 3]))

parseErrorResponse(status, body) ==
  LET message ==
        IF TruthyText(body.error) THEN ValueOf(body.error)
        ELSE IF TruthyText(body.message) THEN ValueOf(body.message)
        ELSE IF TruthyText(body.detail) THEN ValueOf(body.detail)
        ELSE MSG_API_FAILED
  IN CASE status = 400 ->
            IF \/ Includes(message, <<"context">>)
               \/ Includes(message, <<"token">>)
               \/ Includes(message, <<"length">>)
            THEN AIServiceError(MSG_TOO_LONG, "CONTEXT_LENGTH_EXCEEDED", FALSE, Undefined)
            ELSE AIServiceError(message, "UNKNOWN", FALSE, Undefined)
       [] status = 401 ->
            AIServiceError(MSG_INVALID_KEY, "INVALID_API_KEY", FALSE, Undefined)
       [] status = 403 ->
            AIServiceError(MSG_ACCESS_DENIED, "INVALID_API_KEY", FALSE, Undefined)
       [] status = 404 ->
            AIServiceError(MSG_MODEL_NOT_FOUND, "MODEL_NOT_FOUND", FALSE, Undefined)
       [] status = 429 ->
            IF \/ Includes(message, <<"quota">>)
               \/ Includes(message, <<"billing">>)
               \/ Includes(message, <<"limit", "exceeded">>)
            THEN AIServiceError(MSG_QUOTA, "QUOTA_EXCEEDED", FALSE, Undefined)
            ELSE LET rewritten == MSG_RATE_LIMIT
                     retryMatch == RetryMatch(rewritten)
                 IN AIServiceError(rewritten, "RATE_LIMIT", TRUE,
                                   IF IsDefined(retryMatch) THEN retryMatch ELSE Some(60))
       [] status \in {500, 502, 503, 504} ->
            AIServiceError(MSG_SERVER(status), "SERVER_ERROR", TRUE, Some(5))
       [] OTHER ->
            IF status >= 500
            THEN AIServiceError(message, "SERVER_ERROR", TRUE, Undefined)
            ELSE AIServiceError(message, "UNKNOWN", FALSE, Undefined)

\* ------------------------------------------------------------------ settings

AIProvider == {"openai", "anthropic", "ollama", "custom"}
\* aiProvider is a string in the stored settings: "legacy" stands for a value
\* outside the closed set
ProviderValues == AIProvider \cup {"legacy"}
ApiKeys == {"", "sk"}
ApiEndpoints == {"", "http://host/v1"}

SettingsValues ==
  [aiProvider : ProviderValues, apiKey : ApiKeys, apiEndpoint : ApiEndpoints]

\* PROVIDER_DEFAULTS[provider].endpoint
ProviderDefaultEndpoint(provider) ==
  CASE provider = "openai" -> "https://openai/chat/completions"
    [] provider = "anthropic" -> "https://anthropic/messages"
    [] provider = "ollama" -> "http://localhost:11434/api/chat"

\* ------------------------------------------------------------ request builder

NoRequest ==
  [provider |-> "none", endpoint |-> "", authorization |-> Undefined,
   xApiKey |-> Undefined, stream |-> FALSE]

buildOpenAIRequest(s, stream) ==
  [provider |-> "openai", endpoint |-> ProviderDefaultEndpoint("openai"),
   authorization |-> Some(s.apiKey), xApiKey |-> Undefined, stream |-> stream]

buildAnthropicRequest(s, stream) ==
  [provider |-> "anthropic", endpoint |-> ProviderDefaultEndpoint("anthropic"),
   authorization |-> Undefined, xApiKey |-> Some(s.apiKey), stream |-> stream]

buildOllamaRequest(s, stream) ==
  [provider |-> "ollama",
   endpoint |-> IF s.apiEndpoint # "" THEN s.apiEndpoint
                ELSE ProviderDefaultEndpoint("ollama"),
   authorization |-> Undefined, xApiKey |-> Undefined, stream |-> stream]

\* buildCustomRequest that always sends `Bearer ${apiKey}`
buildCustomRequestAlwaysAuth(s, stream) ==
  [provider |-> "custom", endpoint |-> s.apiEndpoint,
   authorization |-> Some(s.apiKey), xApiKey |-> Undefined, stream |-> stream]

buildCustomRequest(s, stream) ==
  [provider |-> "custom", endpoint |-> s.apiEndpoint,
   authorization |-> IF s.apiKey # "" THEN Some(s.apiKey) ELSE Undefined,
   xApiKey |-> Undefined, stream |-> stream]

\* [ok, req, err]: the request, or the error buildRequest throws
buildRequest(s, stream) ==
  CASE s.aiProvider = "openai" ->
         [ok |-> TRUE, req |-> buildOpenAIRequest(s, stream), err |-> NoError]
    [] s.aiProvider = "anthropic" ->
         [ok |-> TRUE, req |-> buildAnthropicRequest(s, stream), err |-> NoError]
    [] s.aiProvider = "ollama" ->
         [ok |-> TRUE, req |-> buildOllamaRequest(s, stream), err |-> NoError]
    [] s.aiProvider = "custom" ->
         [ok |-> TRUE, req |-> buildCustomRequest(s, stream), err |-> NoError]
    [] OTHER ->
         [ok |-> FALSE, req |-> NoRequest,
          err |-> AIServiceError(MSG_UNKNOWN_PROVIDER, "UNKNOWN", FALSE, Undefined)]

\* ----------------------------------------------------------- response parser

\* A decoded response body: content[0].text, message.content and
\* choices[0].message.content, each present or not.
EmptyJson == [content |-> Undefined, message |-> Undefined, choices |-> Undefined]

GeneratedText == <<"hello">>

\* the body the endpoint a request went to answers with
ResponseBodyFor(provider) ==
  CASE provider = "anthropic" -> [EmptyJson EXCEPT !.content = Some(GeneratedText)]
    [] provider = "ollama" -> [EmptyJson EXCEPT !.message = Some(GeneratedText)]
    [] OTHER -> [EmptyJson EXCEPT !.choices = Some(GeneratedText)]

\* x || ''
OrEmpty(o) == IF TruthyText(o) THEN ValueOf(o) ELSE <<>>

\* the content of the AIResponse
parseResponse(provider, json) ==
  CASE provider = "anthropic" -> OrEmpty(json.content)
    [] provider = "ollama" -> OrEmpty(json.message)
    [] OTHER -> OrEmpty(json.choices)

\* ------------------------------------------------------------------ transport

NoBody == [error |-> Undefined, message |-> Undefined, detail |-> Undefined]

ProviderMessages ==
  {<<"maximum", "context", "length">>,
   <<"you", "exceeded", "your", "quota">>,
   <<"rate", "limit", "try", "again", "in", "20">>,
   <<"network", "unreachable">>}

ErrorBodies ==
  {NoBody} \cup {[NoBody EXCEPT !.error = Some(m)] : m \in ProviderMessages}

ErrorStatuses == {400, 401, 404, 429, 500, 501}

\* what reader.read() rejects with
ReadErrors ==
  {RawError(TRUE, "typeerror", <<"network", "error">>),
   RawError(FALSE, "none", <<>>)}

\* what requestUrl / fetch reject with
TransportErrors ==
  {RawError(TRUE, "typeerror", <<"failed", "to", "fetch">>),
   RawError(TRUE, "error", <<"unexpected", "end", "of", "input">>),
   RawError(FALSE, "none", <<>>)}

Outcome(t, status, json, body, err) ==
  [t |-> t, status |-> status, json |-> json, body |-> body, err |-> err]

\* the ways one HTTP exchange for request req can end
HttpOutcomes(req) ==
  {Outcome("response", 200, j, NoBody, NoError) :
      j \in {ResponseBodyFor(req.provider), EmptyJson}}
  \cup {Outcome("response", st, EmptyJson, b, NoError) :
      st \in ErrorStatuses, b \in ErrorBodies}
  \cup {Outcome("throw", 0, EmptyJson, NoBody, e) : e \in TransportErrors}

\* ---------------------------------------------------------------- retry driver

\* RetryDelayMs without `if (error.retryAfter)`: the backoff alone
RetryDelayMsBackoffOnly(error, attempt, cfg) ==
  Min(cfg.baseDelayMs * (2 ^ attempt), cfg.maxDelayMs)

\* RetryDelayMs without Math.min(delayMs, maxDelayMs)
RetryDelayMsUncapped(error, attempt, cfg) ==
  IF IsDefined(error.retryAfter) /\ ValueOf(error.retryAfter) # 0
  THEN ValueOf(error.retryAfter) * 1000
  ELSE cfg.baseDelayMs * (2 ^ attempt)

\* RetryDelayMs with a backoff that grows by baseDelayMs per attempt
RetryDelayMsLinear(error, attempt, cfg) ==
  Min(IF IsDefined(error.retryAfter) /\ ValueOf(error.retryAfter) # 0
      THEN ValueOf(error.retryAfter) * 1000
      ELSE cfg.baseDelayMs * (attempt + 1),
      cfg.maxDelayMs)

\* the delay executeWithRetry computes before the retry that follows `attempt`
RetryDelayMs(error, attempt, cfg) ==
  LET backoff == cfg.baseDelayMs * (2 ^ attempt)
      delayMs == IF IsDefined(error.retryAfter) /\ ValueOf(error.retryAfter) # 0
                 THEN ValueOf(error.retryAfter) * 1000
                 ELSE backoff
  IN Min(delayMs, cfg.maxDelayMs)

\* executeWithRetryCatch with the exhaustion test off by one
executeWithRetryCatchOffByOne(error, attempt, cfg) ==
  IF error.isAIServiceError /\ error.retryable /\ attempt <= cfg.maxRetries
  THEN [throw |-> FALSE, delayMs |-> RetryDelayMs(error, attempt, cfg)]
  ELSE [throw |-> TRUE, delayMs |-> 0]

\* executeWithRetryCatch without the test of error.retryable
executeWithRetryCatchRetryAll(error, attempt, cfg) ==
  IF error.isAIServiceError /\ attempt < cfg.maxRetries
  THEN [throw |-> FALSE, delayMs |-> RetryDelayMs(error, attempt, cfg)]
  ELSE [throw |-> TRUE, delayMs |-> 0]

\* the catch block of executeWithRetry: rethrow, or delay and go on
executeWithRetryCatch(error, attempt, cfg) ==
  IF error.isAIServiceError
  THEN IF ~error.retryable THEN [throw |-> TRUE, delayMs |-> 0]
       ELSE IF attempt >= cfg.maxRetries THEN [throw |-> TRUE, delayMs |-> 0]
       ELSE [throw |-> FALSE, delayMs |-> RetryDelayMs(error, attempt, cfg)]
  ELSE [throw |-> TRUE, delayMs |-> 0]

\* RetryThrown replaced by the error that follows the loop
RetryThrownPlaceholder(error) ==
  AIServiceError(MSG_RETRY_LIMIT, "UNKNOWN", FALSE, Undefined)

\* what the catch block of executeWithRetry throws: the error it caught
RetryThrown(error) == error

\* the catch block of the operation generate hands to executeWithRetry
generateCatch(error) ==
  IF isNetworkError(error)
  THEN AIServiceError(MSG_NETWORK, "NETWORK_ERROR", TRUE, Undefined)
  ELSE IF error.isAIServiceError THEN error
  ELSE AIServiceError(IF error.isError THEN error.message ELSE MSG_UNKNOWN_ERROR,
                      "UNKNOWN", FALSE, Undefined)

\* ------------------------------------------------------------- stream parser

\* Wire symbols: "\n", " ", "\r", the prefix "data: ", the sentinel line
\* "data: [DONE]", the text "[DONE]", an SSE field "event: x", and JSON texts,
\* each one symbol.
FragmentA == <<"hel">>
FragmentB == <<"lo">>

NoJson ==
  [isNull |-> FALSE, type |-> "", deltaText |-> Undefined, hasMessage |-> FALSE,
   messageContent |-> Undefined, done |-> FALSE, hasChoices |-> FALSE,
   choices |-> <<>>]

Choice(content, finish) == [content |-> content, finish_reason |-> finish]

\* JSON.parse of one JSON text: [ok, v]; ok = FALSE is a SyntaxError
JsonText(sym) ==
  CASE sym = "{oa:hel}" ->
         [ok |-> TRUE, v |-> [NoJson EXCEPT !.hasChoices = TRUE,
                                !.choices = <<Choice(Some(FragmentA), "")>>]]
    [] sym = "{oa:lo}" ->
         [ok |-> TRUE, v |-> [NoJson EXCEPT !.hasChoices = TRUE,
                                !.choices = <<Choice(Some(FragmentB), "")>>]]
    [] sym = "{oa:stop}" ->
         [ok |-> TRUE, v |-> [NoJson EXCEPT !.hasChoices = TRUE,
                                !.choices = <<Choice(Undefined, "stop")>>]]
    [] sym = "{oa:nochoice}" ->
         [ok |-> TRUE, v |-> [NoJson EXCEPT !.hasChoices = TRUE]]
    [] sym = "{an:hel}" ->
         [ok |-> TRUE, v |-> [NoJson EXCEPT !.type = "content_block_delta",
                                !.deltaText = Some(FragmentA)]]
    [] sym = "{an:lo}" ->
         [ok |-> TRUE, v |-> [NoJson EXCEPT !.type = "content_block_delta",
                                !.deltaText = Some(FragmentB)]]
    [] sym = "{an:stop}" ->
         [ok |-> TRUE, v |-> [NoJson EXCEPT !.type = "message_stop"]]
    [] sym = "{an:ping}" ->
         [ok |-> TRUE, v |-> [NoJson EXCEPT !.type = "ping"]]
    [] sym = "{ol:hel}" ->
         [ok |-> TRUE, v |-> [NoJson EXCEPT !.hasMessage = TRUE,
                                !.messageContent = Some(FragmentA)]]
    [] sym = "{ol:lo}" ->
         [ok |-> TRUE, v |-> [NoJson EXCEPT !.hasMessage = TRUE,
                                !.messageContent = Some(FragmentB)]]
    [] sym = "{ol:done}" ->
         [ok |-> TRUE, v |-> [NoJson EXCEPT !.hasMessage = TRUE,
                                !.messageContent = Some(<<>>), !.done = TRUE]]
    [] sym = "{ol:lo,done}" ->
         [ok |-> TRUE, v |-> [NoJson EXCEPT !.hasMessage = TRUE,
                                !.messageContent = Some(FragmentB), !.done = TRUE]]
    [] sym = "{}" -> [ok |-> TRUE, v |-> NoJson]
    [] sym = "null" -> [ok |-> TRUE, v |-> [NoJson EXCEPT !.isNull = TRUE]]
    [] OTHER -> [ok |-> FALSE, v |-> NoJson]

\* the symbols whose text starts with "{"
StartsWithBrace(sym) ==
  sym \in {"{oa:hel}", "{oa:lo}", "{oa:stop}", "{oa:nochoice}", "{an:hel}", "{an:lo}",
           "{an:stop}", "{an:ping}", "{ol:hel}", "{ol:lo}", "{ol:done}",
           "{ol:lo,done}", "{}", "{bad"}

IsSpace(sym) == sym \in {" ", "\r"}

RECURSIVE TrimStart(_)
TrimStart(line) ==
  IF line # <<>> /\ IsSpace(Head(line)) THEN TrimStart(Tail(line)) ELSE line

RECURSIVE TrimEnd(_)
TrimEnd(line) ==
  IF line # <<>> /\ IsSpace(line[Len(line)])
  THEN TrimEnd(SubSeq(line, 1, Len(line) - 1)) ELSE line

\* String.prototype.trim
Trim(line) == TrimEnd(TrimStart(line))

\* JSON.parse of a text: surrounding white space is allowed, anything but
\* exactly one JSON text is a SyntaxError
JsonParse(text) ==
  LET t == Trim(text)
  IN IF Len(t) = 1 THEN JsonText(t[1]) ELSE [ok |-> FALSE, v |-> NoJson]

\* trimmed === 'data: [DONE]'
IsDoneSentinel(trimmed) ==
  trimmed = <<"data: [DONE]">> \/ trimmed = <<"data: ", "[DONE]">>

NullChunk == [isNull |-> TRUE, content |-> <<>>, done |-> FALSE]
StreamChunk(content, done) == [isNull |-> FALSE, content |-> content, done |-> done]

\* parseChunkData whose anthropic branch answers an unknown event type with
\* an empty chunk
parseChunkDataLenient(provider, data) ==
  IF data.isNull THEN NullChunk
  ELSE CASE provider \in {"anthropic", "ollama"} ->
              IF provider = "anthropic" /\ data.type = "message_stop"
              THEN StreamChunk(<<>>, TRUE)
              ELSE StreamChunk(OrEmpty(IF provider = "anthropic" THEN data.deltaText
                                       ELSE data.messageContent),
                               provider = "ollama" /\ data.done)
         [] OTHER ->
              IF ~data.hasChoices \/ Len(data.choices) = 0 THEN NullChunk
              ELSE IF data.choices[1].finish_reason = "stop"
                   THEN StreamChunk(<<>>, TRUE)
                   ELSE StreamChunk(OrEmpty(data.choices[1].content), FALSE)

\* the provider switch of parseStreamChunk; a property read on null throws
\* and the catch returns null
parseChunkData(provider, data) ==
  IF data.isNull THEN NullChunk
  ELSE CASE provider = "anthropic" ->
              IF data.type = "content_block_delta"
              THEN StreamChunk(OrEmpty(data.deltaText), FALSE)
              ELSE IF data.type = "message_stop" THEN StreamChunk(<<>>, TRUE)
              ELSE NullChunk
         [] provider = "ollama" ->
              StreamChunk(OrEmpty(data.messageContent), data.done)
         [] OTHER ->
              IF ~data.hasChoices \/ Len(data.choices) = 0 THEN NullChunk
              ELSE IF data.choices[1].finish_reason = "stop"
                   THEN StreamChunk(<<>>, TRUE)
                   ELSE StreamChunk(OrEmpty(data.choices[1].content), FALSE)

\* trimmed.slice(6) of a text that starts with 'data: '
SliceData(trimmed) ==
  IF Head(trimmed) = "data: " THEN Tail(trimmed) ELSE <<"[DONE]">> \o Tail(trimmed)

parseStreamChunk(provider, line) ==
  LET trimmed == Trim(line)
  IN IF trimmed = <<>> THEN NullChunk
     ELSE IF IsDoneSentinel(trimmed) THEN StreamChunk(<<>>, TRUE)
     ELSE IF Head(trimmed) \in {"data: ", "data: [DONE]"}
          THEN LET j == JsonParse(SliceData(trimmed))
               IN IF j.ok THEN parseChunkData(provider, j.v) ELSE NullChunk
     ELSE IF StartsWithBrace(Head(trimmed))
          THEN LET j == JsonParse(trimmed)
               IN IF j.ok THEN parseChunkData(provider, j.v) ELSE NullChunk
     ELSE NullChunk

\* buffer.split('\n'): the segments between the line feeds, at least one
RECURSIVE Split(_)
Split(buf) ==
  IF \A i \in 1..Len(buf) : buf[i] # "\n" THEN <<buf>>
  ELSE LET k == CHOOSE i \in 1..Len(buf) :
                   buf[i] = "\n" /\ \A j \in 1..(i - 1) : buf[j] # "\n"
       IN <<SubSeq(buf, 1, k - 1)>> \o Split(SubSeq(buf, k + 1, Len(buf)))

\* lines.pop() that keeps nothing for the next read
RetainedNone(lines) == <<>>

\* buffer = lines.pop() || '': the last segment is kept for the next read
Retained(lines) == lines[Len(lines)]

\* a callback invocation; `at` is the position in the response of the first
\* symbol of the line it was parsed from (0: not from a line)
ChunkEvent(text, at) == [ev |-> "chunk", text |-> text, at |-> at]
CompleteEvent == [ev |-> "complete", text |-> <<>>, at |-> 0]

\* what one call of generateStream has done so far: the callbacks made, whether
\* the function returned from inside the loop, the positions of the lines
\* handed to the parser, the position of the line that parsed as terminal,
\* and the providers the parser dispatched on
StreamAcc(events, parsed, terminal, providers) ==
  [events |-> events, returned |-> FALSE, parsed |-> parsed,
   terminal |-> terminal, providers |-> providers]

\* parseStreamChunk reads this.settings.aiProvider only past the first return
ReadsProvider(line) == Trim(line) # <<>> /\ ~IsDoneSentinel(Trim(line))

NoteParse(provider, line, at, acc) ==
  [acc EXCEPT !.parsed = Append(acc.parsed, at),
              !.providers = IF ReadsProvider(line) THEN @ \cup {provider} ELSE @]

\* handleDone without the return
handleDoneNoReturn(at, acc) ==
  [acc EXCEPT !.events = Append(acc.events, CompleteEvent), !.terminal = Some(at)]

\* a line that parsed as terminal inside the loop: onComplete(); return
handleDone(at, acc) ==
  [acc EXCEPT !.events = Append(acc.events, CompleteEvent),
              !.returned = TRUE, !.terminal = Some(at)]

\* handleLine that gives up the stream on a line it cannot parse
handleLineStrict(provider, line, at, acc) ==
  LET chunk == parseStreamChunk(provider, line)
      seen == NoteParse(provider, line, at, acc)
  IN IF chunk.isNull
     THEN IF Trim(line) = <<>> THEN seen ELSE handleDone(at, seen)
     ELSE IF chunk.done THEN handleDone(at, seen)
     ELSE IF chunk.content # <<>>
          THEN [seen EXCEPT !.events = Append(seen.events, ChunkEvent(chunk.content, at))]
     ELSE seen

\* the body of `for (const line of lines)` for one line
handleLine(provider, line, at, acc) ==
  LET chunk == parseStreamChunk(provider, line)
      seen == NoteParse(provider, line, at, acc)
  IN IF chunk.isNull THEN seen
     ELSE IF chunk.done THEN handleDone(at, seen)
     ELSE IF chunk.content # <<>>
          THEN [seen EXCEPT !.events = Append(seen.events, ChunkEvent(chunk.content, at))]
     ELSE seen

RECURSIVE ProcessLines(_, _, _, _)
ProcessLines(provider, lines, at, acc) ==
  IF lines = <<>> \/ acc.returned THEN acc
  ELSE ProcessLines(provider, Tail(lines), at + Len(Head(lines)) + 1,
                    handleLine(provider, Head(lines), at, acc))

\* flushBuffer that also calls onComplete() for a terminal last line
flushBufferTwice(provider, buf, at, acc) ==
  LET chunk == parseStreamChunk(provider, buf)
      seen == NoteParse(provider, buf, at, acc)
      flushed == IF buf = <<>> THEN acc
                 ELSE IF ~chunk.isNull /\ chunk.done
                      THEN [seen EXCEPT !.terminal = Some(at),
                                        !.events = Append(seen.events, CompleteEvent)]
                 ELSE IF ~chunk.isNull /\ chunk.content # <<>>
                      THEN [seen EXCEPT !.events =
                               Append(seen.events, ChunkEvent(chunk.content, at))]
                 ELSE seen
  IN [flushed EXCEPT !.events = Append(flushed.events, CompleteEvent)]

\* `if (buffer) { ... }` after the loop, then onComplete()
flushBuffer(provider, buf, at, acc) ==
  LET chunk == parseStreamChunk(provider, buf)
      seen == NoteParse(provider, buf, at, acc)
      noted == [seen EXCEPT !.terminal =
                   IF ~chunk.isNull /\ chunk.done THEN Some(at) ELSE @]
      flushed == IF buf = <<>> THEN acc
                 ELSE IF ~chunk.isNull /\ chunk.content # <<>>
                      THEN [noted EXCEPT !.events =
                               Append(noted.events, ChunkEvent(chunk.content, at))]
                 ELSE noted
  IN [flushed EXCEPT !.events = Append(flushed.events, CompleteEvent)]

\* a catch block of generateStream that rethrows what it caught
streamCatchRethrow(error) == error

\* the catch block of generateStream
streamCatch(error) ==
  IF error.isError /\ error.name = "aborterror"
  THEN AIServiceError(MSG_TIMEOUT, "TIMEOUT", TRUE, Undefined)
  ELSE IF error.isAIServiceError THEN error
  ELSE IF isNetworkError(error)
       THEN AIServiceError(MSG_NETWORK, "NETWORK_ERROR", TRUE, Undefined)
  ELSE AIServiceError(IF error.isError THEN error.message ELSE MSG_UNKNOWN_STREAM,
                      "UNKNOWN", FALSE, Undefined)

AbortError == RawError(TRUE, "aborterror", <<"the", "operation", "was", "aborted">>)

\* the mobile fallback that forgets onChunk
fallbackCallbacksCompleteOnly(content) == <<CompleteEvent>>

\* the callbacks of the mobile fallback: onChunk(response.content); onComplete()
fallbackCallbacks(content) == <<ChunkEvent(content, 0), CompleteEvent>>

\* the symbols the endpoint of a request streams
StreamAlphabet(provider) ==
  CASE provider = "anthropic" -> {"\n", "{an:hel}", "{an:stop}"}
    [] provider = "ollama" -> {"\n", "{ol:hel}", "{ol:lo,done}"}
    [] OTHER -> {"\n", "data: ", "data: [DONE]", "{oa:hel}"}

\* what one read of the response body can deliver
Chunks(provider) ==
  UNION {[1..k -> StreamAlphabet(provider)] : k \in 1..MaxChunkLen}

\* the 2 minute timeout of generateStream, and the clock's resolution
StreamTimeoutMs == 120000
TickMs == 120000

\* --------------------------------------------------------------------- state

VARIABLES
  settings,     \* this.settings
  retryConfig,  \* this.retryConfig
  isMobile,     \* Platform.isMobile
  pc,           \* where the one call in flight is suspended
  callKind,     \* "none", "generate" or "stream": the method the caller invoked
  callStart,    \* the settings when the call started
  updates,      \* updateSettings calls since the call started
  attempt,      \* the loop counter of executeWithRetry
  lastError,    \* lastError of executeWithRetry
  nreq,         \* HTTP requests the call has issued
  req,          \* the last request built
  delayMs,      \* delayMs of executeWithRetry: the last delay awaited, in ms
  ndelays,      \* the delays the call has awaited
  result,       \* how the call ended
  parsedWith,   \* the providers parseResponse / parseStreamChunk dispatched on
  buffer,       \* buffer of generateStream
  log,          \* the callback invocations of the call
  wire,         \* the symbols of the response body read so far
  parsed,       \* positions of the lines handed to parseStreamChunk
  terminal,     \* position of the line that parsed as terminal, if any
  timerArmed,   \* the setTimeout of generateStream is pending
  elapsed,      \* ticks since the call started
  lastResponse  \* status and body of the last HTTP response the call received

vars == <<settings, retryConfig, isMobile, pc, callKind, callStart, updates, attempt,
          lastError, nreq, req, delayMs, ndelays, result, parsedWith, buffer, log, wire,
          parsed, terminal, timerArmed, elapsed, lastResponse>>

\* no response received yet, or requestUrl / fetch rejected
NoResponse == [status |-> 0, body |-> NoBody]
ResponseOf(o) == IF o.t = "response" THEN [status |-> o.status, body |-> o.body]
                 ELSE NoResponse

NoResult == [kind |-> "none", error |-> NoError, content |-> <<>>]
OkResult(content) == [kind |-> "ok", error |-> NoError, content |-> content]
ErrorResult(error) == [kind |-> "error", error |-> error, content |-> <<>>]

\* the settings the plugin stores: the fields a builder does not read are
\* held fixed
StoredSettings ==
  {s \in SettingsValues :
      /\ s.aiProvider \in {"openai", "anthropic", "ollama"} =>
            s.apiKey = "sk" /\ s.apiEndpoint = ""
      /\ s.aiProvider = "custom" => (s.apiKey = "") = (s.apiEndpoint = "")
      /\ s.aiProvider = "legacy" => s.apiKey = "" /\ s.apiEndpoint = ""}

\* the state after construction with settings of `stored` and one of `configs`
InitFrom(stored, configs) ==
  /\ settings \in stored
  /\ retryConfig \in configs
  /\ isMobile \in BOOLEAN
  /\ pc = "idle"
  /\ callKind = "none"
  /\ callStart = settings
  /\ updates = 0
  /\ attempt = 0
  /\ lastError = NoError
  /\ nreq = 0
  /\ req = NoRequest
  /\ delayMs = 0
  /\ ndelays = 0
  /\ result = NoResult
  /\ parsedWith = {}
  /\ buffer = <<>>
  /\ log = <<>>
  /\ wire = <<>>
  /\ parsed = <<>>
  /\ terminal = Undefined
  /\ timerArmed = FALSE
  /\ elapsed = 0
  /\ lastResponse = NoResponse

\* the state after construction with one of `configs`
InitWith(configs) == InitFrom(StoredSettings, configs)

\* ------------------------------------------------------------------- actions

updateSettings(s) ==
  /\ updates < MaxUpdates
  /\ pc \notin {"idle", "done"}
  /\ settings' = s
  /\ updates' = updates + 1
  /\ UNCHANGED <<retryConfig, isMobile, lastResponse, pc, callKind, callStart, attempt, lastError,
                 nreq, req, delayMs, ndelays, result, parsedWith, buffer, log, wire, parsed,
                 terminal, timerArmed, elapsed>>

\* the call ends by throwing `error`
Throw(error) ==
  /\ pc' = "done"
  /\ result' = ErrorResult(error)

\* the catch block of executeWithRetry, for the error of attempt `att`
Failed(error, att) ==
  LET d == executeWithRetryCatch(error, att, retryConfig)
  IN /\ lastError' = error
     /\ attempt' = att
     /\ IF d.throw
        THEN Throw(RetryThrown(error)) /\ UNCHANGED <<delayMs, ndelays>>
        ELSE /\ pc' = "gDelay"
             /\ delayMs' = d.delayMs
             /\ ndelays' = ndelays + 1
             /\ result' = result

\* one round of the loop of executeWithRetry up to its first await: the
\* operation builds the request from this.settings and calls requestUrl
RunOperation(att) ==
  LET b == buildRequest(settings, FALSE)
  IN IF b.ok
     THEN /\ req' = b.req
          /\ nreq' = nreq + 1
          /\ pc' = "gAwait"
          /\ attempt' = att
          /\ UNCHANGED <<lastError, delayMs, ndelays, result>>
     ELSE /\ Failed(b.err, att)
          /\ UNCHANGED <<req, nreq>>

\* generate() without the platform test
EnterGenerateUnguarded == RunOperation(0)

\* generate(), up to its first await
EnterGenerate ==
  IF isMobile /\ settings.aiProvider = "ollama"
  THEN /\ Throw(AIServiceError(MSG_OLLAMA_MOBILE, "UNKNOWN", FALSE, Undefined))
       /\ UNCHANGED <<req, nreq, attempt, lastError, delayMs, ndelays>>
  ELSE RunOperation(0)

generate ==
  /\ pc = "idle"
  /\ callKind' = "generate"
  /\ callStart' = settings
  /\ EnterGenerate
  /\ UNCHANGED <<settings, retryConfig, isMobile, lastResponse, updates, parsedWith, buffer, log,
                 wire, parsed, terminal, timerArmed, elapsed>>

\* requestUrl settles: the rest of the operation, then executeWithRetry
httpSettles(o) ==
  /\ pc = "gAwait"
  /\ IF o.t = "response" /\ o.status < 400
     THEN LET response == parseResponse(settings.aiProvider, o.json)
          IN /\ pc' = "done"
             /\ result' = OkResult(response)
             /\ parsedWith' = parsedWith \cup {settings.aiProvider}
             /\ log' = IF callKind = "stream"
                       THEN fallbackCallbacks(response)
                       ELSE log
             /\ UNCHANGED <<attempt, lastError, delayMs, ndelays>>
     ELSE /\ Failed(generateCatch(IF o.t = "response"
                                  THEN parseErrorResponse(o.status, o.body)
                                  ELSE o.err), attempt)
          /\ UNCHANGED <<parsedWith, log>>
  /\ lastResponse' = ResponseOf(o)
  /\ UNCHANGED <<settings, retryConfig, isMobile, callKind, callStart, updates, nreq,
                 req, buffer, wire, parsed, terminal, timerArmed, elapsed>>

\* the delay of executeWithRetry is over: attempt++, the loop test, the next round
delayElapses ==
  /\ pc = "gDelay"
  /\ IF attempt + 1 <= retryConfig.maxRetries
     THEN RunOperation(attempt + 1)
     ELSE /\ Throw(IF lastError # NoError THEN lastError
                   ELSE AIServiceError(MSG_RETRY_LIMIT, "UNKNOWN", FALSE, Undefined))
          /\ UNCHANGED <<req, nreq, attempt, lastError, delayMs, ndelays>>
  /\ UNCHANGED <<settings, retryConfig, isMobile, lastResponse, callKind, callStart, updates,
                 parsedWith, buffer, log, wire, parsed, terminal, timerArmed, elapsed>>

\* generateStream taking the non-streaming fallback on every platform
generateStreamFallbackAlways ==
  /\ pc = "idle"
  /\ callKind' = "stream"
  /\ callStart' = settings
  /\ EnterGenerate
  /\ UNCHANGED <<settings, retryConfig, isMobile, lastResponse, updates, parsedWith, buffer, log,
                 wire, parsed, terminal, timerArmed, elapsed>>

\* generateStream(), up to its first await
generateStream ==
  /\ pc = "idle"
  /\ callKind' = "stream"
  /\ callStart' = settings
  /\ IF isMobile
     THEN /\ IF settings.aiProvider = "ollama"
             THEN /\ Throw(AIServiceError(MSG_OLLAMA_MOBILE, "UNKNOWN", FALSE, Undefined))
                  /\ UNCHANGED <<req, nreq, attempt, lastError, delayMs, ndelays>>
             ELSE EnterGenerate
          /\ UNCHANGED timerArmed
     ELSE LET b == buildRequest(settings, TRUE)
          IN IF b.ok
             THEN /\ req' = b.req
                  /\ nreq' = nreq + 1
                  /\ timerArmed' = TRUE
                  /\ pc' = "sFetch"
                  /\ UNCHANGED <<result, attempt, lastError, delayMs, ndelays>>
             ELSE /\ Throw(b.err)
                  /\ UNCHANGED <<req, nreq, timerArmed, attempt, lastError, delayMs, ndelays>>
  /\ UNCHANGED <<settings, retryConfig, isMobile, lastResponse, updates, parsedWith, buffer, log,
                 wire, parsed, terminal, elapsed>>

\* fetch settles: clearTimeout, then the status and body checks
fetchSettles(o, hasBody) ==
  /\ pc = "sFetch"
  /\ timerArmed' = FALSE
  /\ IF o.t = "response" /\ o.status < 400
     THEN IF hasBody
          THEN pc' = "sRead" /\ result' = result
          ELSE Throw(streamCatch(AIServiceError(MSG_NO_BODY, "UNKNOWN", FALSE, Undefined)))
     ELSE Throw(streamCatch(IF o.t = "response"
                            THEN parseErrorResponse(o.status, o.body)
                            ELSE o.err))
  /\ lastResponse' = ResponseOf(o)
  /\ UNCHANGED <<settings, retryConfig, isMobile, callKind, callStart, updates, nreq,
                 req, attempt, lastError, delayMs, ndelays, parsedWith, buffer, log, wire,
                 parsed, terminal, elapsed>>

\* reader.read() delivers `chunk`: split, keep the last segment, parse the rest
readChunk(chunk) ==
  /\ pc = "sRead"
  /\ Len(wire) + Len(chunk) <= MaxWire
  /\ LET text == buffer \o chunk
         lines == Split(text)
         acc == ProcessLines(settings.aiProvider,
                             SubSeq(lines, 1, Len(lines) - 1),
                             Len(wire) - Len(buffer) + 1,
                             StreamAcc(log, parsed, terminal, parsedWith))
     IN /\ wire' = wire \o chunk
        /\ buffer' = Retained(lines)
        /\ log' = acc.events
        /\ parsed' = acc.parsed
        /\ terminal' = acc.terminal
        /\ parsedWith' = acc.providers
        /\ IF acc.returned
           THEN pc' = "done" /\ result' = OkResult(<<>>)
           ELSE pc' = "sRead" /\ result' = result
  /\ UNCHANGED <<settings, retryConfig, isMobile, lastResponse, callKind, callStart, updates, nreq,
                 req, attempt, lastError, delayMs, ndelays, timerArmed, elapsed>>

\* reader.read() reports the end of the body
readDone ==
  /\ pc = "sRead"
  /\ LET acc == flushBuffer(settings.aiProvider, buffer, Len(wire) - Len(buffer) + 1,
                            StreamAcc(log, parsed, terminal, parsedWith))
     IN /\ log' = acc.events
        /\ parsed' = acc.parsed
        /\ terminal' = acc.terminal
        /\ parsedWith' = acc.providers
  /\ pc' = "done"
  /\ result' = OkResult(<<>>)
  /\ UNCHANGED <<settings, retryConfig, isMobile, lastResponse, callKind, callStart, updates, nreq,
                 req, attempt, lastError, delayMs, ndelays, buffer, wire, timerArmed, elapsed>>

\* reader.read() rejects
readFails(e) ==
  /\ pc = "sRead"
  /\ timerArmed' = FALSE
  /\ Throw(streamCatch(e))
  /\ UNCHANGED <<settings, retryConfig, isMobile, lastResponse, callKind, callStart, updates, nreq,
                 req, attempt, lastError, delayMs, ndelays, parsedWith, buffer, log, wire,
                 parsed, terminal, elapsed>>

TimerDue == timerArmed /\ elapsed * TickMs >= StreamTimeoutMs

\* the timeout callback runs controller.abort(): the pending fetch or read
\* rejects with an AbortError
timerFires ==
  /\ TimerDue
  /\ timerArmed' = FALSE
  /\ IF pc \in {"sFetch", "sRead"}
     THEN Throw(streamCatch(AbortError))
     ELSE UNCHANGED <<pc, result>>
  /\ UNCHANGED <<settings, retryConfig, isMobile, lastResponse, callKind, callStart, updates, nreq,
                 req, attempt, lastError, delayMs, ndelays, parsedWith, buffer, log, wire,
                 parsed, terminal, elapsed>>

\* time passes while the streaming request is in flight; a due timer runs first
tick ==
  /\ pc \in {"sFetch", "sRead"}
  /\ elapsed < MaxTicks
  /\ ~TimerDue
  /\ elapsed' = elapsed + 1
  /\ UNCHANGED <<settings, retryConfig, isMobile, lastResponse, pc, callKind, callStart, updates,
                 attempt, lastError, nreq, req, delayMs, ndelays, result, parsedWith, buffer,
                 log, wire, parsed, terminal, timerArmed>>

\* the caller has the outcome; the service is idle again
return ==
  /\ pc = "done"
  /\ pc' = "idle"
  /\ callKind' = "none"
  /\ callStart' = settings
  /\ updates' = 0
  /\ attempt' = 0
  /\ lastError' = NoError
  /\ nreq' = 0
  /\ req' = NoRequest
  /\ delayMs' = 0
  /\ ndelays' = 0
  /\ result' = NoResult
  /\ parsedWith' = {}
  /\ buffer' = <<>>
  /\ log' = <<>>
  /\ wire' = <<>>
  /\ parsed' = <<>>
  /\ terminal' = Undefined
  /\ elapsed' = 0
  /\ lastResponse' = NoResponse
  /\ UNCHANGED <<settings, retryConfig, isMobile, timerArmed>>

Init == InitWith({DEFAULT_RETRY_CONFIG})

Next ==
  \/ \E s \in StoredSettings : updateSettings(s)
  \/ generate
  \/ \E o \in HttpOutcomes(req) : httpSettles(o)
  \/ delayElapses
  \/ generateStream
  \/ \E o \in HttpOutcomes(req), hasBody \in BOOLEAN : fetchSettles(o, hasBody)
  \/ \E chunk \in Chunks(req.provider) : readChunk(chunk)
  \/ readDone
  \/ \E e \in ReadErrors : readFails(e)
  \/ timerFires
  \/ tick
  \/ return

Spec == Init /\ [][Next]_vars

\* Calls of generate alone, on a service constructed with either retry
\* configuration.
InitRetry == InitWith(RetryConfigs)

NextRetry ==
  \/ generate
  \/ \E o \in HttpOutcomes(req) : httpSettles(o)
  \/ delayElapses
  \/ return

SpecRetry == InitRetry /\ [][NextRetry]_vars

\* Calls under either retry configuration against an endpoint that answers
\* with any of the statuses parseErrorResponse tells apart and with error
\* bodies of each shape it reads; streams end without data.
AllErrorStatuses == {400, 401, 403, 404, 418, 429, 500, 501, 502, 503, 504}

AllProviderMessages ==
  ProviderMessages \cup {<<"rate", "limit", "exceeded">>,
                         <<"billing", "hard", "limit", "reached">>,
                         <<"bad", "request">>}

AllErrorBodies ==
  {NoBody}
  \cup {[NoBody EXCEPT !.error = Some(m)] : m \in AllProviderMessages}
  \cup {[NoBody EXCEPT !.message = Some(<<"too", "many", "tokens">>)],
        [NoBody EXCEPT !.detail = Some(<<"try", "again", "in", "7">>)],
        [NoBody EXCEPT !.error = Some(<<>>), !.message = Some(<<"quota">>)]}

AllHttpOutcomes(r) ==
  HttpOutcomes(r)
  \cup {Outcome("response", st, EmptyJson, b, NoError) :
           st \in AllErrorStatuses, b \in AllErrorBodies}

InitHttp == InitWith(RetryConfigs)

NextHttp ==
  \/ generate
  \/ \E o \in AllHttpOutcomes(req) : httpSettles(o)
  \/ delayElapses
  \/ generateStream
  \/ \E o \in AllHttpOutcomes(req), hasBody \in BOOLEAN : fetchSettles(o, hasBody)
  \/ readDone
  \/ return

SpecHttp == InitHttp /\ [][NextHttp]_vars

\* Desktop streaming calls against an endpoint that also streams lines the
\* parser cannot use: a non-data line, JSON null, JSON objects of another
\* shape.
StreamAlphabetAll(provider) ==
  CASE provider = "anthropic" ->
         {"\n", "data: ", "{an:hel}", "{an:stop}", "{an:ping}", "null", "event: x"}
    [] provider = "ollama" ->
         {"\n", "{ol:hel}", "{ol:lo,done}", "{}", "null", "event: x"}
    [] OTHER ->
         {"\n", "data: ", "{oa:hel}", "{oa:stop}", "{}", "null", "event: x"}

ChunksAll(provider) ==
  UNION {[1..k -> StreamAlphabetAll(provider)] : k \in 1..MaxChunkLen}

InitStream == InitWith({DEFAULT_RETRY_CONFIG}) /\ ~isMobile

NextStream ==
  \/ generateStream
  \/ \E o \in {Outcome("response", 200, EmptyJson, NoBody, NoError)} : fetchSettles(o, TRUE)
  \/ \E chunk \in ChunksAll(req.provider) : readChunk(chunk)
  \/ readDone
  \/ return

SpecStream == InitStream /\ [][NextStream]_vars

\* Calls of a service constructed with any combination of provider,
\* credential and endpoint.
InitBuild == InitFrom(SettingsValues, {DEFAULT_RETRY_CONFIG})

NextBuild ==
  \/ generate
  \/ \E o \in HttpOutcomes(req) : httpSettles(o)
  \/ delayElapses
  \/ generateStream
  \/ \E o \in HttpOutcomes(req), hasBody \in BOOLEAN : fetchSettles(o, hasBody)
  \/ readDone
  \/ return

SpecBuild == InitBuild /\ [][NextBuild]_vars

\* -------------------------------------------------------------------- claims

\* the call runs the retry driver: generate, or generateStream falling back to it
IsGenerateCall == callKind = "generate" \/ (callKind = "stream" /\ isMobile)
IsDesktopStream == callKind = "stream" /\ ~isMobile
Ended == pc = "done"
Raised == Ended /\ result.kind = "error"
Returned == Ended /\ result.kind = "ok"

\* C1 (as claimed): a call uses the configuration that was current when it
\* started: the last request is the one buildRequest makes of the settings at
\* the start of the call, and every parse dispatched on the provider of those
\* settings.
C1_CallUsesStartSnapshot ==
  /\ req # NoRequest =>
        /\ buildRequest(callStart, req.stream).ok
        /\ req = buildRequest(callStart, req.stream).req
  /\ parsedWith \subseteq {callStart.aiProvider}

\* C2: one generate call makes at most maxRetries + 1 requests and awaits at
\* most maxRetries delays.
C2_AttemptsBounded ==
  callKind = "generate" =>
     /\ nreq <= retryConfig.maxRetries + 1
     /\ ndelays <= retryConfig.maxRetries
     /\ attempt <= retryConfig.maxRetries

C2_Witness ==
  /\ callKind = "generate" /\ Ended
  /\ retryConfig = DEFAULT_RETRY_CONFIG
  /\ nreq = 4 /\ ndelays = 3

\* C3: when the error the retry driver caught last is not retryable, or is not
\* a classified error, the call has ended by raising that error, on the attempt
\* that failed: as many delays as earlier attempts, and no request after it.
C3_FatalRaisedAtOnce ==
  (lastError # NoError /\ (~lastError.isAIServiceError \/ ~lastError.retryable)) =>
     /\ Raised
     /\ result.error = lastError
     /\ ndelays = attempt
     /\ nreq <= attempt + 1

C3_Witness ==
  /\ Raised /\ IsGenerateCall
  /\ lastError.isAIServiceError /\ ~lastError.retryable
  /\ attempt = 1 /\ nreq = 2 /\ ndelays = 1

\* C4: a generate call that ended in failure with a retryable error on its last
\* attempt made maxRetries + 1 requests and maxRetries delays, and raised that
\* very error, a classified one, not the placeholder that follows the loop.
C4_ExhaustionRaisesLastError ==
  (callKind = "generate" /\ Raised /\ lastError.isAIServiceError /\ lastError.retryable) =>
     /\ result.error = lastError
     /\ result.error.code \in AIErrorCode
     /\ result.error.message # MSG_RETRY_LIMIT
     /\ nreq = retryConfig.maxRetries + 1
     /\ attempt = retryConfig.maxRetries
     /\ ndelays = retryConfig.maxRetries

C4_Witness ==
  /\ callKind = "generate" /\ Raised
  /\ result.error.code = "RATE_LIMIT" /\ result.error.retryAfter = Some(60)
  /\ retryConfig = DEFAULT_RETRY_CONFIG /\ nreq = 4 /\ ndelays = 3

\* a generate call that failed retryably on its first attempt and succeeded on
\* its second
SucceededOnSecond ==
  /\ IsGenerateCall /\ Returned /\ attempt = 1
  /\ lastError.isAIServiceError /\ lastError.retryable

\* C5 (as claimed): such a call made two requests and one delay, of 1000 ms.
C5_OneDelayOf1000 ==
  SucceededOnSecond => nreq = 2 /\ ndelays = 1 /\ delayMs = 1000

\* C5 (amended): such a call made two requests and one delay; under the default
\* configuration the delay is 1000 ms when the failure carries no suggested
\* wait, 30000 ms after a rate-limited failure and 5000 ms after a server
\* error that carries the 5 s wait.
C5_OneDelayBySuggestedWait ==
  SucceededOnSecond =>
     /\ nreq = 2 /\ ndelays = 1
     /\ delayMs = CASE lastError.code = "RATE_LIMIT" -> 30000
                    [] lastError.code = "SERVER_ERROR"
                         /\ IsDefined(lastError.retryAfter) -> 5000
                    [] OTHER -> 1000

C5_Witness ==
  /\ SucceededOnSecond /\ callKind = "generate"
  /\ lastError.code = "NETWORK_ERROR" /\ delayMs = 1000
  /\ result.content = GeneratedText

\* C6: the delay awaited after the failure of attempt k-1 is
\* min(maxDelayMs, d), d being the suggested wait in ms when the error carries
\* one and baseDelayMs * 2^(k-1) otherwise; no delay exceeds maxDelayMs.
C6_DelayFormula ==
  /\ pc = "gDelay" =>
        delayMs = Min(retryConfig.maxDelayMs,
                      IF IsDefined(lastError.retryAfter)
                      THEN ValueOf(lastError.retryAfter) * 1000
                      ELSE retryConfig.baseDelayMs * (2 ^ attempt))
  /\ delayMs <= retryConfig.maxDelayMs

C6_Witness ==
  /\ pc = "gDelay" /\ attempt = 1
  /\ retryConfig = AltRetryConfig
  /\ ~IsDefined(lastError.retryAfter)
  /\ delayMs = retryConfig.maxDelayMs
  /\ retryConfig.baseDelayMs * 2 > retryConfig.maxDelayMs

\* the invocations of the completion callback
Completions == {i \in 1..Len(log) : log[i].ev = "complete"}

\* C7: the completion callback is invoked at most once in a generateStream
\* call: not while the call is in flight, exactly once when it has returned,
\* not at all when it has raised an error.
C7_CompleteExactlyOnce ==
  callKind = "stream" =>
     /\ Cardinality(Completions) <= 1
     /\ ~Ended => Completions = {}
     /\ Returned => Cardinality(Completions) = 1
     /\ Raised => Completions = {}

\* a stream whose terminal chunk is its unterminated last line
C7_Witness ==
  /\ IsDesktopStream /\ Returned
  /\ buffer # <<>>
  /\ terminal = Some(Len(wire) - Len(buffer) + 1)
  /\ Cardinality(Completions) = 1

\* the line of the response that starts at position `at`
LineAt(w, at) ==
  LET ends == {i \in at..Len(w) : w[i] = "\n"}
  IN SubSeq(w, at, IF ends = {} THEN Len(w)
                   ELSE (CHOOSE i \in ends : \A j \in ends : i <= j) - 1)

\* C8: fragments reach the fragment callback in the order of their lines, each
\* is the text of the line it is attributed to, the completion callback comes
\* last, and once a line has parsed as terminal the call is over: no line
\* after it was handed to the parser and no fragment of a later line delivered.
C8_OrderAndNothingAfterTerminal ==
  IsDesktopStream =>
     /\ \A i, j \in 1..Len(log) :
           (i < j /\ log[i].ev = "chunk" /\ log[j].ev = "chunk") => log[i].at < log[j].at
     /\ \A i \in 1..Len(log) :
           log[i].ev = "chunk" =>
              \E p \in parsedWith :
                 parseStreamChunk(p, LineAt(wire, log[i].at)).content = log[i].text
     /\ \A i \in 1..Len(log) : log[i].ev = "complete" => i = Len(log)
     /\ IsDefined(terminal) =>
           /\ Returned
           /\ \A i \in 1..Len(parsed) : parsed[i] <= ValueOf(terminal)
           /\ \A i \in 1..Len(log) : log[i].at <= ValueOf(terminal)

\* a terminal line followed, in the same read, by a complete fragment line
C8_Witness ==
  /\ IsDesktopStream /\ Returned /\ IsDefined(terminal)
  /\ Len(wire) >= 4 /\ wire[Len(wire)] = "\n"
  /\ \E i \in (ValueOf(terminal) + 1)..Len(wire) :
        /\ wire[i - 1] = "\n"
        /\ ~parseStreamChunk(settings.aiProvider, LineAt(wire, i)).isNull
        /\ parseStreamChunk(settings.aiProvider, LineAt(wire, i)).content # <<>>

StreamInFlight == callKind = "stream" /\ pc \in {"sFetch", "sRead"}

\* C9 (as claimed): a streaming request still in flight 120 s after the call
\* started has its abort timer armed (so that the abort comes next).
C9_TimerArmedWhileInFlight ==
  (StreamInFlight /\ elapsed * TickMs >= StreamTimeoutMs) => timerArmed

\* C10 (as claimed): a generateStream call issues at most one request and
\* awaits no retry delay, on every platform.
C10_StreamNeverRetries ==
  callKind = "stream" => nreq <= 1 /\ ndelays = 0

\* C10 (amended): on the desktop path a generateStream call issues at most one
\* request, never enters the retry driver and awaits no delay, and a failure is
\* raised after that one request; on mobile it runs generate, within the
\* bounds of the retry driver.
C10_DesktopStreamNeverRetries ==
  /\ IsDesktopStream =>
        /\ nreq <= 1 /\ ndelays = 0 /\ attempt = 0 /\ lastError = NoError
        /\ pc # "gDelay" /\ pc # "gAwait"
  /\ (callKind = "stream" /\ isMobile) =>
        /\ nreq <= retryConfig.maxRetries + 1
        /\ ndelays <= retryConfig.maxRetries

C10_Witness ==
  /\ IsDesktopStream /\ Raised
  /\ result.error.code = "RATE_LIMIT" /\ result.error.retryable
  /\ nreq = 1 /\ ndelays = 0

\* C11: a call started on a mobile platform with the ollama provider has
\* ended by raising the non-retryable "not supported on mobile" error: no
\* request was built or sent, no delay awaited, no callback invoked.
C11_OllamaOnMobileFailsAtOnce ==
  (callKind # "none" /\ isMobile /\ callStart.aiProvider = "ollama") =>
     /\ Raised
     /\ result.error = AIServiceError(MSG_OLLAMA_MOBILE, "UNKNOWN", FALSE, Undefined)
     /\ ~result.error.retryable
     /\ req = NoRequest /\ nreq = 0 /\ ndelays = 0 /\ delayMs = 0
     /\ log = <<>>

C11_Witness ==
  /\ callKind = "generate" /\ isMobile /\ callStart.aiProvider = "ollama"
  /\ Raised /\ nreq = 0

\* C12 (as claimed): on a mobile platform the request a call sent last is
\* never one for the ollama provider.
C12_NoOllamaRequestOnMobile ==
  (isMobile /\ req # NoRequest) => req.provider # "ollama"

\* C13: an error that leaves generate or generateStream is an AIServiceError
\* with a code of the enumeration and a retryable flag.
C13_FailuresAreClassified ==
  Raised =>
     /\ result.error.isError /\ result.error.isAIServiceError
     /\ result.error.name = "aiserviceerror"
     /\ result.error.code \in AIErrorCode
     /\ result.error.retryable \in BOOLEAN

\* a streaming read that rejected with something that is not an Error
C13_Witness ==
  /\ IsDesktopStream /\ Raised /\ nreq = 1
  /\ result.error.code = "UNKNOWN"
  /\ result.error.message = MSG_UNKNOWN_STREAM

\* the classified error of the response received last: what generateStream
\* raised on the desktop path, what the retry driver caught otherwise
Classified == IF IsDesktopStream THEN result.error ELSE lastError

\* the text a provider put in an error body
ProviderText(body) ==
  IF IsDefined(body.error) /\ ValueOf(body.error) # <<>> THEN ValueOf(body.error)
  ELSE IF IsDefined(body.message) /\ ValueOf(body.message) # <<>> THEN ValueOf(body.message)
  ELSE IF IsDefined(body.detail) /\ ValueOf(body.detail) # <<>> THEN ValueOf(body.detail)
  ELSE <<>>

Mentions(body, word) == \E i \in 1..Len(ProviderText(body)) : ProviderText(body)[i] = word

\* C14 (as claimed): when the last response of a generate call has status 400,
\* 401, 403 or 404 the call has ended by raising a non-retryable error with
\* the code of the status, and no delay or request followed that response.
C14_ClientErrorsFinal ==
  (IsGenerateCall /\ lastResponse.status \in {400, 401, 403, 404}) =>
     /\ Raised
     /\ ~result.error.retryable
     /\ result.error.code =
           CASE lastResponse.status = 400 ->
                  IF \/ Mentions(lastResponse.body, "length")
                     \/ Mentions(lastResponse.body, "token")
                     \/ Mentions(lastResponse.body, "tokens")
                     \/ Mentions(lastResponse.body, "context")
                  THEN "CONTEXT_LENGTH_EXCEEDED" ELSE "UNKNOWN"
             [] lastResponse.status \in {401, 403} -> "INVALID_API_KEY"
             [] OTHER -> "MODEL_NOT_FOUND"
     /\ nreq = attempt + 1 /\ ndelays = attempt

\* C15 (as claimed): a 429 whose message mentions quota or billing is
\* classified QUOTA_EXCEEDED, not retryable; any other 429 is classified
\* RATE_LIMIT, retryable, with a suggested wait (60 s when the message embeds
\* no wait).
C15_QuotaOrRateLimit ==
  (callKind # "none" /\ lastResponse.status = 429) =>
     IF Mentions(lastResponse.body, "quota") \/ Mentions(lastResponse.body, "billing")
     THEN Classified.code = "QUOTA_EXCEEDED" /\ ~Classified.retryable
     ELSE /\ Classified.code = "RATE_LIMIT" /\ Classified.retryable
          /\ IsDefined(Classified.retryAfter)
          /\ ~IsDefined(RetryMatch(ProviderText(lastResponse.body))) =>
                Classified.retryAfter = Some(60)

\* C16 (as claimed): a rate-limited 429 whose message reads "try again in N"
\* is classified with a suggested wait of N seconds, and the retry driver then
\* waits min(N * 1000, maxDelayMs) ms.
C16_EmbeddedWaitIsUsed ==
  (callKind # "none" /\ lastResponse.status = 429 /\ Classified.code = "RATE_LIMIT"
     /\ IsDefined(RetryMatch(ProviderText(lastResponse.body)))) =>
     /\ Classified.retryAfter = RetryMatch(ProviderText(lastResponse.body))
     /\ pc = "gDelay" =>
           delayMs = Min(ValueOf(RetryMatch(ProviderText(lastResponse.body))) * 1000,
                         retryConfig.maxDelayMs)

\* C17 (as claimed): a response with a status of 500 or more is classified
\* SERVER_ERROR, retryable, with a suggested wait of 5 s, and the retry driver
\* then waits 5000 ms (at most maxDelayMs).
C17_ServerErrorsWaitFive ==
  (callKind # "none" /\ lastResponse.status >= 500) =>
     /\ Classified.code = "SERVER_ERROR" /\ Classified.retryable
     /\ Classified.retryAfter = Some(5)
     /\ pc = "gDelay" => delayMs = Min(5000, retryConfig.maxDelayMs)

\* a line the parser cannot use: not a data line, not valid JSON, or JSON
\* that is not an object
Malformed(line) ==
  LET t == Trim(line)
  IN /\ t # <<>>
     /\ ~IsDoneSentinel(t)
     /\ IF Head(t) \in {"data: ", "data: [DONE]"}
        THEN ~JsonParse(SliceData(t)).ok \/ JsonParse(SliceData(t)).v.isNull
        ELSE IF StartsWithBrace(Head(t))
             THEN ~JsonParse(t).ok \/ JsonParse(t).v.isNull
        ELSE TRUE

WellFormed(line) == ~Malformed(line)

\* the callbacks of a log, without the positions
Calls(events) == [i \in 1..Len(events) |-> <<events[i].ev, events[i].text>>]

\* the callbacks generateStream makes on the lines of w that are well formed
CallsWithoutMalformed(provider, w, ended) ==
  LET lines == Split(w)
      complete == SelectSeq(SubSeq(lines, 1, Len(lines) - 1), WellFormed)
      last == IF Malformed(lines[Len(lines)]) THEN <<>> ELSE lines[Len(lines)]
      acc == ProcessLines(provider, complete, 1, StreamAcc(<<>>, <<>>, Undefined, {}))
  IN IF acc.returned \/ ~ended THEN Calls(acc.events)
     ELSE Calls(flushBuffer(provider, last, 0, acc).events)

\* C18: the callbacks of a streaming call are those it would make if the
\* malformed lines were absent from the response; a malformed line invokes
\* no callback, does not end the stream and raises no error.
C18_MalformedLinesSkipped ==
  (IsDesktopStream /\ pc \in {"sRead", "done"} /\ lastResponse.status = 200) =>
     /\ Calls(log) = CallsWithoutMalformed(settings.aiProvider, wire, Returned)
     /\ ~Raised
     /\ \A i \in 1..Len(parsed) :
           Malformed(LineAt(wire, parsed[i])) =>
              /\ terminal # Some(parsed[i])
              /\ \A k \in 1..Len(log) : log[k].at # parsed[i]

\* a malformed line, then a fragment delivered from the line after it
C18_Witness ==
  /\ IsDesktopStream /\ Returned /\ Len(parsed) >= 2
  /\ Malformed(LineAt(wire, parsed[1]))
  /\ \E k \in 1..Len(log) : log[k].ev = "chunk" /\ log[k].at = parsed[2]

\* a line that is a JSON object without the chunk fields of the provider
UnrelatedShape(provider, line) ==
  LET t == Trim(line)
      j == IF t # <<>> /\ Head(t) = "data: " THEN JsonParse(SliceData(t)) ELSE JsonParse(t)
  IN /\ t # <<>> /\ ~IsDoneSentinel(t)
     /\ Head(t) = "data: " \/ StartsWithBrace(Head(t))
     /\ j.ok /\ ~j.v.isNull
     /\ CASE provider = "anthropic" ->
               j.v.type \notin {"content_block_delta", "message_stop"}
          [] provider = "ollama" -> ~j.v.hasMessage /\ ~j.v.done
          [] OTHER -> ~j.v.hasChoices \/ j.v.choices = <<>>

\* C19 (as claimed): the parser returns null for every line handed to it
\* that is valid JSON of an unrelated shape.
C19_UnrelatedShapeIsNull ==
  IsDesktopStream =>
     \A i \in 1..Len(parsed) :
        UnrelatedShape(settings.aiProvider, LineAt(wire, parsed[i])) =>
           parseStreamChunk(settings.aiProvider, LineAt(wire, parsed[i])) = NullChunk

\* C19 (amended): for such a line the parser returns null under the openai,
\* custom and anthropic providers, and under ollama an empty chunk that is
\* not terminal; either way the line invokes no callback and does not end
\* the stream.
C19_UnrelatedShapeIsSkipped ==
  IsDesktopStream =>
     \A i \in 1..Len(parsed) :
        UnrelatedShape(settings.aiProvider, LineAt(wire, parsed[i])) =>
           /\ parseStreamChunk(settings.aiProvider, LineAt(wire, parsed[i])) =
                 IF settings.aiProvider = "ollama"
                 THEN StreamChunk(<<>>, FALSE) ELSE NullChunk
           /\ terminal # Some(parsed[i])
           /\ \A k \in 1..Len(log) : log[k].at # parsed[i]

C19_Witness ==
  /\ IsDesktopStream /\ Returned /\ settings.aiProvider = "ollama"
  /\ Len(parsed) >= 2
  /\ UnrelatedShape("ollama", LineAt(wire, parsed[1]))
  /\ \E k \in 1..Len(log) : log[k].ev = "chunk" /\ log[k].at = parsed[2]

\* C20: a generateStream call on a mobile platform invokes no callback until
\* the underlying generate call has returned; it then invokes the fragment
\* callback once, with the whole content of the response, and the completion
\* callback once after it; when generate fails neither is invoked and the
\* error raised is classified.
C20_MobileFallbackCallbacks ==
  (callKind = "stream" /\ isMobile) =>
     /\ Returned =>
           /\ Len(log) = 2
           /\ log[1] = [ev |-> "chunk", text |-> result.content, at |-> 0]
           /\ log[2].ev = "complete"
           /\ lastResponse.status = 200
     /\ ~Returned => log = <<>>
     /\ Raised => result.error.isAIServiceError /\ result.error.code \in AIErrorCode

C20_Witness ==
  /\ callKind = "stream" /\ isMobile /\ callStart.aiProvider # "ollama"
  /\ Returned /\ nreq = 2
  /\ Len(log) = 2 /\ log[1].ev = "chunk" /\ log[1].text = GeneratedText
  /\ log[2].ev = "complete"

\* C21 (as claimed): a request issued for the custom provider has a
\* non-empty endpoint.
C21_CustomEndpointNonEmpty ==
  (req # NoRequest /\ req.provider = "custom") => req.endpoint # ""

\* C22: a request built for the custom provider carries an Authorization
\* header, made of the configured key, exactly when that key is not empty, and
\* no other credential header; a request built for ollama carries no
\* credential header, whatever the key.
C22_CredentialHeaders ==
  /\ (req # NoRequest /\ req.provider = "custom") =>
        /\ IsDefined(req.authorization) <=> settings.apiKey # ""
        /\ IsDefined(req.authorization) => req.authorization = Some(settings.apiKey)
        /\ ~IsDefined(req.xApiKey)
  /\ (req # NoRequest /\ req.provider = "ollama") =>
        ~IsDefined(req.authorization) /\ ~IsDefined(req.xApiKey)

C22_Witness ==
  /\ req.provider = "custom" /\ nreq = 1
  /\ settings.apiKey = "" /\ settings.apiEndpoint # ""
  /\ ~IsDefined(req.authorization)

\* the retry driver is waiting after a failure of one of the two kinds, under
\* the default configuration
WaitingAfter(code) ==
  /\ IsGenerateCall /\ pc = "gDelay" /\ retryConfig = DEFAULT_RETRY_CONFIG
  /\ lastError.code = code

AfterOneRead(provider, w, ended) ==
  LET lines == Split(w)
      last == lines[Len(lines)]
      acc == ProcessLines(provider, SubSeq(lines, 1, Len(lines) - 1), 1,
                          StreamAcc(<<>>, <<>>, Undefined, {}))
  IN IF acc.returned \/ ~ended THEN acc
     ELSE flushBuffer(provider, last, Len(w) - Len(last) + 1, acc)

\* C24: the callbacks of a streaming call, and the lines handed to the
\* parser, are those of the same response read in one piece, however the
\* reads cut it: each complete line is parsed once, in order, and a non-empty
\* last line without line feed once, when the body has ended.
C24_ChunkingIndependent ==
  (IsDesktopStream /\ pc \in {"sRead", "done"} /\ lastResponse.status = 200) =>
     /\ log = AfterOneRead(settings.aiProvider, wire, Returned).events
     /\ parsed = AfterOneRead(settings.aiProvider, wire, Returned).parsed
     /\ \A i, j \in 1..Len(parsed) : i < j => parsed[i] < parsed[j]
     /\ (pc = "sRead" /\ buffer # <<>>) =>
           \A i \in 1..Len(parsed) : parsed[i] < Len(wire) - Len(buffer) + 1

\* a response longer than one read, with a line of two symbols and a last
\* line without line feed, each delivered once
C24_Witness ==
  /\ IsDesktopStream /\ Returned
  /\ Len(wire) > MaxChunkLen
  /\ wire[1] = "data: " /\ wire[Len(wire)] # "\n" /\ buffer # <<>>
  /\ Len(parsed) = 2 /\ parsed[2] = Len(wire) - Len(buffer) + 1
  /\ \E i, j \in 1..Len(log) :
        /\ log[i].ev = "chunk" /\ log[i].at = parsed[1]
        /\ log[j].ev = "chunk" /\ log[j].at = parsed[2]

\* the generated text a line carries, whether or not it signals completion
CarriedText(provider, line) ==
  LET t == Trim(line)
      j == IF t # <<>> /\ Head(t) = "data: " THEN JsonParse(SliceData(t)) ELSE JsonParse(t)
  IN IF t = <<>> \/ IsDoneSentinel(t) \/ ~j.ok \/ j.v.isNull THEN <<>>
     ELSE CASE provider = "anthropic" ->
                 IF j.v.type = "content_block_delta" THEN OrEmpty(j.v.deltaText) ELSE <<>>
            [] provider = "ollama" -> OrEmpty(j.v.messageContent)
            [] OTHER -> IF j.v.hasChoices /\ Len(j.v.choices) > 0
                        THEN OrEmpty(j.v.choices[1].content) ELSE <<>>

RECURSIVE Concat(_)
Concat(texts) == IF texts = <<>> THEN <<>> ELSE Head(texts) \o Concat(Tail(texts))

\* the texts passed to the fragment callback, in order
Delivered ==
  Concat([i \in 1..Len(log) |-> log[i].text])

\* the text carried by the lines handed to the parser
Generated ==
  Concat([i \in 1..Len(parsed) |-> CarriedText(settings.aiProvider, LineAt(wire, parsed[i]))])

\* C25 (as claimed): when a streaming call has returned, the texts passed to
\* the fragment callback add up to the text carried by the lines of the
\* stream up to and including the terminal one.
C25_NoTextLost ==
  (IsDesktopStream /\ Returned) => Delivered = Generated

====
